---- MODULE Spec2Model ----
(***************************************************************************)
(* Owens Valley Paiute sentence synthesis (package yaduha_ovp).           *)
(*                                                                         *)
(* A Python str is modelled as a sequence of its code points, each a      *)
(* one-character string: "isha'" is <<"i","s","h","a","'">>.  The         *)
(* combining tilde U+0303 (second code point of the lenis form of m, and  *)
(* of the w of "hukaw~ia") is written "~".  English lemmas are dictionary  *)
(* keys only and stay atomic strings.                                      *)
(*                                                                         *)
(* A raised exception is modelled as a one-element sequence holding the   *)
(* exception's text; no word has a multi-character element, so a word and *)
(* an exception are never equal.                                           *)
(***************************************************************************)
EXTENDS Integers, Sequences, FiniteSets, TLC

VARIABLES
  pc,      \* "idle", "built", "rejected", "raised", "returned"; in a generator
           \* "sampling", "subject_drawn", "verb_drawn", "object_drawn", "exhausted"
  op,      \* the constructor, method or function last run
  model,   \* the pydantic instance constructed, the receiver of a method call
  args,    \* the arguments of the call
  out,     \* what the call returned or raised
  yielded, \* how many instances the running sample_iter generator has yielded
  frame,   \* the locals subject, verb and obj of the running generator
  pipeline \* the translation request under way: its stage, the configured
           \* shapes, the shapes attempted, the back-translation, the last error

vars == <<pc, op, model, args, out, yielded, frame, pipeline>>

----------------------------------------------------------------------------
(* Bounds of the inputs.                                                   *)

\* Sentences are built from the first MaxNouns entries of NOUNS, ...
MaxNouns == 2
\* ... the first MaxTransitive entries of TRANSITIVE_VERBS ...
MaxTransitive == 3
\* ... and the first MaxIntransitive entries of INTRANSITIVE_VERBS.
MaxIntransitive == 2
\* to_lenis is also applied to every word of 0..MaxWordLen letters of Alphabet.
MaxWordLen == 3
\* sample_iter is called with n in 0..MaxSample.
MaxSample == 2
\* choice() over a vocabulary table draws from its first MaxSampleLemmas entries.
MaxSampleLemmas == 1

----------------------------------------------------------------------------
(* vocab.py: the three vocabulary tables, complete.                        *)

\* src/yaduha_ovp/vocab.py:38-76
NOUNS ==
  << [english |-> "coyote", target |-> <<"i", "s", "h", "a", "'">>],
     [english |-> "vulture", target |-> <<"w", "i", "h", "o">>],
     [english |-> "dog", target |-> <<"i", "s", "h", "a", "p", "u", "g", "u">>],
     [english |-> "cat", target |-> <<"k", "i", "d", "i", "'">>],
     [english |-> "horse", target |-> <<"p", "u", "g", "u">>],
     [english |-> "rice", target |-> <<"w", "a", "i">>],
     [english |-> "pinenuts", target |-> <<"t", "ü", "b", "a">>],
     [english |-> "corn", target |-> <<"m", "a", "i", "s", "h", "i", "b", "ü">>],
     [english |-> "water", target |-> <<"p", "a", "y", "a">>],
     [english |-> "river", target |-> <<"p", "a", "y", "a", "h", "u", "u", "p", "ü">>],
     [english |-> "chair", target |-> <<"k", "a", "t", "ü", "n", "u">>],
     [english |-> "mountain", target |-> <<"t", "o", "y", "a", "b", "i">>],
     [english |-> "food", target |-> <<"t", "u", "u", "n", "a", "p", "i">>],
     [english |-> "tree", target |-> <<"p", "a", "s", "o", "h", "o", "b", "ü">>],
     [english |-> "house", target |-> <<"n", "o", "b", "i">>],
     [english |-> "wickiup", target |-> <<"t", "o", "n", "i">>],
     [english |-> "cup", target |-> <<"a", "p", "o">>],
     [english |-> "wood", target |-> <<"k", "ü", "n", "a">>],
     [english |-> "rock", target |-> <<"t", "ü", "b", "b", "i">>],
     [english |-> "cottontail", target |-> <<"t", "a", "b", "u", "u", "t", "s", "i", "'">>],
     [english |-> "jackrabbit", target |-> <<"k", "a", "m", "ü">>],
     [english |-> "apple", target |-> <<"a", "a", "p", "o", "n", "u", "'">>],
     [english |-> "weasle", target |-> <<"t", "ü", "s", "ü", "g", "a">>],
     [english |-> "lizard", target |-> <<"m", "u", "k", "i", "t", "a">>],
     [english |-> "mosquito", target |-> <<"w", "o", "'", "a", "d", "a">>],
     [english |-> "bird_snake", target |-> <<"w", "ü", "k", "a", "d", "a">>],
     [english |-> "worm", target |-> <<"w", "o", "'", "a", "b", "i">>],
     [english |-> "squirrel", target |-> <<"a", "i", "n", "g", "w", "ü">>],
     [english |-> "bird", target |-> <<"t", "s", "i", "i", "p", "a">>],
     [english |-> "earth", target |-> <<"t", "ü", "w", "o", "o", "b", "ü">>],
     [english |-> "coffee", target |-> <<"k", "o", "o", "p", "i", "'">>],
     [english |-> "bear", target |-> <<"p", "a", "h", "a", "b", "i", "c", "h", "i">>],
     [english |-> "fish", target |-> <<"p", "a", "g", "w", "i">>],
     [english |-> "tail", target |-> <<"k", "w", "a", "d", "z", "i">>],
     [english |-> "raccoon", target |-> <<"p", "a", "d", "a", "k", "a", "'", "i">>],
     [english |-> "chipmunk", target |-> <<"t", "a", "b", "a", "'", "y", "a">>],
     [english |-> "knife", target |-> <<"w", "i", "h", "i">>] >>

\* src/yaduha_ovp/vocab.py:78-93
TRANSITIVE_VERBS ==
  << [english |-> "eat", target |-> <<"t", "ü", "k", "a">>],
     [english |-> "see", target |-> <<"p", "u", "n", "i">>],
     [english |-> "drink", target |-> <<"h", "i", "b", "i">>],
     [english |-> "hear", target |-> <<"n", "a", "k", "a">>],
     [english |-> "smell", target |-> <<"k", "w", "a", "n", "a">>],
     [english |-> "hit", target |-> <<"k", "w", "a", "t", "i">>],
     [english |-> "talk_to", target |-> <<"y", "a", "d", "o", "h", "i">>],
     [english |-> "chase", target |-> <<"n", "a", "k", "i">>],
     [english |-> "climb", target |-> <<"t", "s", "i", "b", "u", "i">>],
     [english |-> "cook", target |-> <<"s", "a", "w", "a">>],
     [english |-> "read", target |-> <<"n", "i", "a">>],
     [english |-> "write", target |-> <<"m", "u", "i">>],
     [english |-> "visit", target |-> <<"n", "o", "b", "i", "n", "i">>],
     [english |-> "find", target |-> <<"t", "a", "m", "a", "'", "i">>] >>

\* src/yaduha_ovp/vocab.py:95-119
INTRANSITIVE_VERBS ==
  << [english |-> "sit", target |-> <<"k", "a", "t", "ü">>],
     [english |-> "sleep", target |-> <<"ü", "w", "i">>],
     [english |-> "sneeze", target |-> <<"k", "w", "i", "s", "h", "a", "'", "i">>],
     [english |-> "run", target |-> <<"p", "o", "y", "o", "h", "a">>],
     [english |-> "go", target |-> <<"m", "i", "a">>],
     [english |-> "walk", target |-> <<"h", "u", "k", "a", "w", "~", "i", "a">>],
     [english |-> "stand", target |-> <<"w", "ü", "n", "ü">>],
     [english |-> "lie_down", target |-> <<"h", "a", "b", "i">>],
     [english |-> "talk", target |-> <<"y", "a", "d", "o", "h", "a">>],
     [english |-> "fall", target |-> <<"k", "w", "a", "t", "s", "a", "'", "i">>],
     [english |-> "work", target |-> <<"w", "a", "a", "k", "ü">>],
     [english |-> "smile", target |-> <<"w", "ü", "k", "i", "h", "a", "a">>],
     [english |-> "sing", target |-> <<"h", "u", "b", "i", "a", "d", "u">>],
     [english |-> "laugh", target |-> <<"n", "i", "s", "h", "u", "a", "'", "i">>],
     [english |-> "climb", target |-> <<"t", "s", "i", "b", "u", "i">>],
     [english |-> "play", target |-> <<"t", "ü", "b", "i", "n", "o", "h", "i">>],
     [english |-> "fly", target |-> <<"y", "o", "t", "s", "i">>],
     [english |-> "jump", target |-> <<"y", "o", "t", "s", "i">>],
     [english |-> "dance", target |-> <<"n", "ü", "g", "a">>],
     [english |-> "swim", target |-> <<"p", "a", "h", "a", "b", "i">>],
     [english |-> "read", target |-> <<"t", "ü", "n", "i", "a">>],
     [english |-> "write", target |-> <<"t", "ü", "m", "u", "i">>],
     [english |-> "chirp", target |-> <<"t", "s", "i", "i", "p", "e", "'", "i">>] >>

----------------------------------------------------------------------------
(* Exceptions.                                                             *)

KeyError == <<"KeyError">>
IndexError == <<"IndexError: string index out of range">>
InvalidTenseAspect == <<"ValueError: Invalid tense/aspect combination">>
InvalidPronoun == <<"ValueError: Invalid pronoun configuration">>
ValidationError == <<"pydantic.ValidationError">>
Exceptions ==
  {KeyError, IndexError, InvalidTenseAspect, InvalidPronoun, ValidationError}

IsException(r) == r \in Exceptions

\* f"{a}{sep}{b}" where a is evaluated before b: the first exception raised
\* is the one that propagates.
Join(a, sep, b) ==
  IF IsException(a) THEN a
  ELSE IF IsException(b) THEN b
  ELSE a \o sep \o b

Hyphen == <<"-">>
Space == <<" ">>
\* str(None), what an f-string puts in place of a None value
NoneStr == <<"N", "o", "n", "e">>

----------------------------------------------------------------------------
(* Lookup dictionaries: {entry.english: entry for entry in TABLE}.  A     *)
(* later entry with the same key replaces an earlier one.                  *)

Keys(table) == {table[i].english : i \in 1..Len(table)}

LastIndex(table, lemma) ==
  CHOOSE i \in 1..Len(table) :
    /\ table[i].english = lemma
    /\ \A j \in (i+1)..Len(table) : table[j].english # lemma

\* a lookup that answers an absent lemma with a bracketed placeholder
Mutant_Target(table, lemma) ==
  IF lemma \in Keys(table) THEN table[LastIndex(table, lemma)].target
  ELSE <<"[", lemma, "]">>

\* LOOKUP[lemma].target
Target(table, lemma) ==
  IF lemma \in Keys(table) THEN table[LastIndex(table, lemma)].target
  ELSE KeyError

NOUN_LOOKUP == Keys(NOUNS)
TRANSITIVE_VERB_LOOKUP == Keys(TRANSITIVE_VERBS)
INTRANSITIVE_VERB_LOOKUP == Keys(INTRANSITIVE_VERBS)

get_noun_target(lemma) == Target(NOUNS, lemma)

get_transitive_verb_target(lemma) == Target(TRANSITIVE_VERBS, lemma)

get_intransitive_verb_target(lemma) == Target(INTRANSITIVE_VERBS, lemma)

\* get_verb_target trying the intransitive table first
Mutant_get_verb_target(lemma) ==
  IF lemma \in INTRANSITIVE_VERB_LOOKUP
    THEN Target(INTRANSITIVE_VERBS, lemma)
    ELSE Target(TRANSITIVE_VERBS, lemma)

get_verb_target(lemma) ==
  IF lemma \in TRANSITIVE_VERB_LOOKUP
    THEN Target(TRANSITIVE_VERBS, lemma)
    ELSE Target(INTRANSITIVE_VERBS, lemma)

LENIS_KEYS == {"p", "t", "k", "s", "m"}

LENIS_MAP(c) ==
  CASE c = "p" -> <<"b">>
    [] c = "t" -> <<"d">>
    [] c = "k" -> <<"g">>
    [] c = "s" -> <<"z">>
    [] c = "m" -> <<"w", "~">>

to_lenis(word) ==
  IF Len(word) = 0 THEN IndexError
  ELSE IF word[1] \in LENIS_KEYS
    THEN LENIS_MAP(word[1]) \o SubSeq(word, 2, Len(word))
    ELSE word

----------------------------------------------------------------------------
(* Grammatical enumerations.                                               *)

Proximity == {"proximal", "distal"}
Person == {"first", "second", "third"}
Plurality == {"singular", "dual", "plural"}
Inclusivity == {"inclusive", "exclusive"}
TenseAspect == {"past_simple", "past_continuous", "present_perfect",
                "present_simple", "present_continuous", "future_simple"}

get_object_suffix(proximity, does_end_in_glottal) ==
  IF proximity = "proximal"
    THEN (IF does_end_in_glottal THEN <<"e", "i", "k", "a">>
                                 ELSE <<"n", "e", "i", "k", "a">>)
    ELSE (IF does_end_in_glottal THEN <<"u", "k", "a">>
                                 ELSE <<"n", "o", "k", "a">>)

get_subject_suffix(proximity) ==
  IF proximity = "proximal" THEN <<"i", "i">> ELSE <<"u", "u">>

\* get_suffix with present_continuous left out of the second branch
Mutant_get_suffix(tense_aspect) ==
  IF tense_aspect = "past_simple" THEN <<"k", "u">>
  ELSE IF tense_aspect \in {"past_continuous"} THEN <<"t", "i">>
  ELSE IF tense_aspect = "present_perfect" THEN <<"p", "ü">>
  ELSE IF tense_aspect = "present_simple" THEN <<"d", "ü">>
  ELSE IF tense_aspect = "future_simple" THEN <<"w", "e", "i">>
  ELSE InvalidTenseAspect

get_suffix(tense_aspect) ==
  IF tense_aspect = "past_simple" THEN <<"k", "u">>
  ELSE IF tense_aspect \in {"past_continuous", "present_continuous"} THEN <<"t", "i">>
  ELSE IF tense_aspect = "present_perfect" THEN <<"p", "ü">>
  ELSE IF tense_aspect = "present_simple" THEN <<"d", "ü">>
  ELSE IF tense_aspect = "future_simple" THEN <<"w", "e", "i">>
  ELSE InvalidTenseAspect

----------------------------------------------------------------------------
(* Pronoun.                                                                *)

Pronoun ==
  [cls : {"Pronoun"}, person : Person, plurality : Plurality,
   proximity : Proximity, inclusivity : Inclusivity, reflexive : BOOLEAN]

\* get_subject_pronoun with the second person written like the first:
\* singular, dual, and a plural split by inclusivity that forgets exclusive
Mutant_get_subject_pronoun(self) ==
  IF self.person = "first" THEN
    IF self.plurality = "singular" THEN <<"n", "ü", "ü">>
    ELSE IF self.plurality = "dual" THEN <<"t", "a", "a">>
    ELSE IF self.plurality = "plural" THEN
      (IF self.inclusivity = "inclusive"
         THEN <<"t", "a", "a", "g", "w", "a">>
         ELSE <<"n", "ü", "ü", "g", "w", "a">>)
    ELSE InvalidPronoun
  ELSE IF self.person = "second" THEN
    IF self.plurality = "singular" THEN <<"ü", "ü">>
    ELSE IF self.plurality = "dual" THEN <<"ü", "ü", "g", "w", "a">>
    ELSE IF self.inclusivity = "inclusive" THEN <<"ü", "ü", "g", "w", "a">>
    ELSE InvalidPronoun
  ELSE IF self.person = "third" THEN
    IF self.plurality = "singular" THEN
      (IF self.proximity = "proximal"
         THEN <<"m", "a", "h", "u">>
         ELSE <<"u", "h", "u">>)
    ELSE
      (IF self.proximity = "proximal"
         THEN <<"m", "a", "h", "u", "w", "~", "a">>
         ELSE <<"u", "h", "u", "w", "~", "a">>)
  ELSE InvalidPronoun

\* get_subject_pronoun with a reflexive form for the third person, as
\* get_object_pronoun has
Mutant_reflexive_get_subject_pronoun(self) ==
  IF self.person = "first" THEN
    IF self.plurality = "singular" THEN <<"n", "ü", "ü">>
    ELSE IF self.plurality = "dual" THEN <<"t", "a", "a">>
    ELSE IF self.plurality = "plural" THEN
      (IF self.inclusivity = "inclusive"
         THEN <<"t", "a", "a", "g", "w", "a">>
         ELSE <<"n", "ü", "ü", "g", "w", "a">>)
    ELSE InvalidPronoun
  ELSE IF self.person = "second" THEN
    (IF self.plurality = "singular"
       THEN <<"ü", "ü">>
       ELSE <<"ü", "ü", "g", "w", "a">>)
  ELSE IF self.person = "third" THEN
    IF self.reflexive THEN <<"n", "a">>
    ELSE IF self.plurality = "singular" THEN
      (IF self.proximity = "proximal"
         THEN <<"m", "a", "h", "u">>
         ELSE <<"u", "h", "u">>)
    ELSE
      (IF self.proximity = "proximal"
         THEN <<"m", "a", "h", "u", "w", "~", "a">>
         ELSE <<"u", "h", "u", "w", "~", "a">>)
  ELSE InvalidPronoun

get_subject_pronoun(self) ==
  IF self.person = "first" THEN
    IF self.plurality = "singular" THEN <<"n", "ü", "ü">>
    ELSE IF self.plurality = "dual" THEN <<"t", "a", "a">>
    ELSE IF self.plurality = "plural" THEN
      (IF self.inclusivity = "inclusive"
         THEN <<"t", "a", "a", "g", "w", "a">>
         ELSE <<"n", "ü", "ü", "g", "w", "a">>)
    ELSE InvalidPronoun
  ELSE IF self.person = "second" THEN
    (IF self.plurality = "singular"
       THEN <<"ü", "ü">>
       ELSE <<"ü", "ü", "g", "w", "a">>)
  ELSE IF self.person = "third" THEN
    IF self.plurality = "singular" THEN
      (IF self.proximity = "proximal"
         THEN <<"m", "a", "h", "u">>
         ELSE <<"u", "h", "u">>)
    ELSE
      (IF self.proximity = "proximal"
         THEN <<"m", "a", "h", "u", "w", "~", "a">>
         ELSE <<"u", "h", "u", "w", "~", "a">>)
  ELSE InvalidPronoun

\* get_object_pronoun with the reflexive test made inside the singular
\* branch only
Mutant_get_object_pronoun(self) ==
  IF self.person = "first" THEN
    IF self.plurality = "singular" THEN <<"i">>
    ELSE IF self.plurality = "dual" THEN <<"t", "a">>
    ELSE IF self.plurality = "plural" THEN
      (IF self.inclusivity = "inclusive" THEN <<"t", "e", "i">> ELSE <<"n", "i">>)
    ELSE InvalidPronoun
  ELSE IF self.person = "second" THEN
    (IF self.plurality = "singular" THEN <<"ü">> ELSE <<"ü", "i">>)
  ELSE IF self.person = "third" THEN
    IF self.plurality = "singular" THEN
      (IF self.reflexive THEN <<"n", "a">>
       ELSE IF self.proximity = "proximal" THEN <<"a">> ELSE <<"u">>)
    ELSE
      (IF self.proximity = "proximal" THEN <<"a", "i">> ELSE <<"u", "i">>)
  ELSE InvalidPronoun

get_object_pronoun(self) ==
  IF self.person = "first" THEN
    IF self.plurality = "singular" THEN <<"i">>
    ELSE IF self.plurality = "dual" THEN <<"t", "a">>
    ELSE IF self.plurality = "plural" THEN
      (IF self.inclusivity = "inclusive" THEN <<"t", "e", "i">> ELSE <<"n", "i">>)
    ELSE InvalidPronoun
  ELSE IF self.person = "second" THEN
    (IF self.plurality = "singular" THEN <<"ü">> ELSE <<"ü", "i">>)
  ELSE IF self.person = "third" THEN
    IF self.reflexive THEN <<"n", "a">>
    ELSE IF self.plurality = "singular" THEN
      (IF self.proximity = "proximal" THEN <<"a">> ELSE <<"u">>)
    ELSE
      (IF self.proximity = "proximal" THEN <<"a", "i">> ELSE <<"u", "i">>)
  ELSE InvalidPronoun

----------------------------------------------------------------------------
(* Verb, TransitiveVerb, IntransitiveVerb, Noun, SubjectNoun, ObjectNoun.  *)

\* Verb.validate_lemma, inherited unchanged by both subclasses: TRUE when
\* the lemma is returned, FALSE when ValueError("Invalid verb") is raised.
validate_lemma(v) ==
  ~ (v \notin TRANSITIVE_VERB_LOOKUP /\ v \notin INTRANSITIVE_VERB_LOOKUP)

\* Noun.validate_head
validate_head(v) == ~ (v \notin NOUN_LOOKUP)

\* possessive_determiner: Optional[Pronoun] = None
NoneValue == [cls |-> "NoneType"]

VerbOf(cls, lemma, tense_aspect) ==
  [cls |-> cls, lemma |-> lemma, tense_aspect |-> tense_aspect]

NounOf(cls, head, possessive_determiner, proximity, plurality) ==
  [cls |-> cls, head |-> head, possessive_determiner |-> possessive_determiner,
   proximity |-> proximity, plurality |-> plurality]

PronounOf(person, plurality, proximity, inclusivity, reflexive) ==
  [cls |-> "Pronoun", person |-> person, plurality |-> plurality,
   proximity |-> proximity, inclusivity |-> inclusivity, reflexive |-> reflexive]

\* get_matching_pronoun_prefix with the plurality left at singular
Mutant_get_matching_pronoun_prefix(self) ==
  get_object_pronoun(PronounOf("third", "singular", self.proximity,
                               "exclusive", FALSE))

\* ObjectNoun.get_matching_pronoun_prefix
get_matching_pronoun_prefix(self) ==
  get_object_pronoun(PronounOf("third", self.plurality, self.proximity,
                               "exclusive", FALSE))

\* str.endswith with a one-character suffix
endswith(word, c) == Len(word) > 0 /\ word[Len(word)] = c

----------------------------------------------------------------------------
(* Sentences.                                                              *)

SubjectVerbSentenceOf(subject, verb) ==
  [cls |-> "SubjectVerbSentence", subject |-> subject, verb |-> verb,
   object |-> NoneValue]

SubjectVerbObjectSentenceOf(subject, verb, object) ==
  [cls |-> "SubjectVerbObjectSentence", subject |-> subject, verb |-> verb,
   object |-> object]

\* isinstance(self.subject.head, Pronoun): head is a validated str
HeadIsPronoun(noun) == FALSE

\* The subject block shared by both renderers; NoneStr is how the f-string
\* of the return statement prints a subject_str left at None.
SubjectStr(subject) ==
  IF subject.cls = "Pronoun" THEN get_subject_pronoun(subject)
  ELSE IF subject.cls = "SubjectNoun" THEN
    (IF HeadIsPronoun(subject) THEN NoneStr
     ELSE Join(get_noun_target(subject.head), Hyphen,
               get_subject_suffix(subject.proximity)))
  ELSE NoneStr

\* SubjectVerbSentence.__str__ with the stem mutated as in the transitive
\* renderer
Mutant_SubjectVerbSentence_str(self) ==
  LET subject_str == SubjectStr(self.subject)
      verb_stem == get_verb_target(self.verb.lemma)
      verb_suffix == get_suffix(self.verb.tense_aspect)
      verb_str == Join(to_lenis(verb_stem), Hyphen, verb_suffix)
  IN  Join(subject_str, Space, verb_str)

\* SubjectVerbSentence.__str__
SubjectVerbSentence_str(self) ==
  LET subject_str == SubjectStr(self.subject)
      verb_stem == get_verb_target(self.verb.lemma)
      verb_suffix == get_suffix(self.verb.tense_aspect)
      verb_str == Join(verb_stem, Hyphen, verb_suffix)
  IN  Join(subject_str, Space, verb_str)

\* object_pronoun_prefix of SubjectVerbObjectSentence.__str__
ObjectPronounPrefix(object) ==
  IF object.cls = "Pronoun" THEN get_object_pronoun(object)
  ELSE IF object.cls = "ObjectNoun" THEN get_matching_pronoun_prefix(object)
  ELSE NoneStr

\* verb_str of SubjectVerbObjectSentence.__str__; the statements run in the
\* order prefix, stem lookup, suffix, to_lenis, and the first to raise wins.
VerbStr(verb, object) ==
  LET object_pronoun_prefix == ObjectPronounPrefix(object)
      verb_stem == IF object # NoneValue
                     THEN get_transitive_verb_target(verb.lemma)
                     ELSE get_intransitive_verb_target(verb.lemma)
      verb_suffix == get_suffix(verb.tense_aspect)
  IN  IF IsException(object_pronoun_prefix) THEN object_pronoun_prefix
      ELSE IF IsException(verb_stem) THEN verb_stem
      ELSE IF IsException(verb_suffix) THEN verb_suffix
      ELSE Join(object_pronoun_prefix, Hyphen,
                Join(to_lenis(verb_stem), Hyphen, verb_suffix))

\* object_str is not None
HasObjectStr(object) == object.cls = "ObjectNoun"

\* object_str with the glottal test made on the English lemma
Mutant_ObjectStr(object) ==
  LET target_word == get_noun_target(object.head)
      does_end_in_glottal == endswith(<<object.head>>, "'")
      object_suffix == get_object_suffix(object.proximity, does_end_in_glottal)
  IN  Join(target_word, Hyphen, object_suffix)

\* object_str of SubjectVerbObjectSentence.__str__, when it is set
ObjectStr(object) ==
  LET target_word == get_noun_target(object.head)
      does_end_in_glottal == endswith(target_word, "'")
      object_suffix == get_object_suffix(object.proximity, does_end_in_glottal)
  IN  Join(target_word, Hyphen, object_suffix)

\* SubjectVerbObjectSentence.__str__ with the subject first in both orders
Mutant_SubjectVerbObjectSentence_str(self) ==
  LET verb_str == VerbStr(self.verb, self.object)
      subject_str == SubjectStr(self.subject)
  IN  IF IsException(verb_str) THEN verb_str
      ELSE IF ~ HasObjectStr(self.object)
        THEN Join(subject_str, Space, verb_str)
      ELSE LET object_str == ObjectStr(self.object)
           IN  IF IsException(object_str) THEN object_str
               ELSE Join(subject_str, Space, Join(object_str, Space, verb_str))

\* SubjectVerbObjectSentence.__str__
SubjectVerbObjectSentence_str(self) ==
  LET verb_str == VerbStr(self.verb, self.object)
      subject_str == SubjectStr(self.subject)
  IN  IF IsException(verb_str) THEN verb_str
      ELSE IF ~ HasObjectStr(self.object)
        THEN Join(verb_str, Space, subject_str)
      ELSE LET object_str == ObjectStr(self.object)
           IN  IF IsException(object_str) THEN object_str
               ELSE Join(subject_str, Space, Join(object_str, Space, verb_str))

\* str(m)
StrOf(m) ==
  IF m.cls = "SubjectVerbSentence"
    THEN SubjectVerbSentence_str(m)
    ELSE SubjectVerbObjectSentence_str(m)

----------------------------------------------------------------------------
(* Inputs.                                                                 *)

Min(a, b) == IF a < b THEN a ELSE b

Prefix(table, n) == {table[i].english : i \in 1..Min(n, Len(table))}

Targets(table) == {table[i].target : i \in 1..Len(table)}

\* a lemma of none of the three tables
UnknownLemma == "lake"

NounHeads == Prefix(NOUNS, MaxNouns)
SentenceLemmas ==
  Prefix(TRANSITIVE_VERBS, MaxTransitive)
    \cup Prefix(INTRANSITIVE_VERBS, MaxIntransitive)

AllLemmas ==
  NOUN_LOOKUP \cup TRANSITIVE_VERB_LOOKUP \cup INTRANSITIVE_VERB_LOOKUP
    \cup {UnknownLemma}

PossessiveInputs ==
  {NoneValue, PronounOf("first", "singular", "proximal", "exclusive", FALSE)}

NounInputs(cls) ==
  { NounOf(cls, h, d, x, n) :
      h \in NounHeads, d \in PossessiveInputs, x \in Proximity, n \in Plurality }

SubjectInputs == Pronoun \cup NounInputs("SubjectNoun")
ObjectInputs == Pronoun \cup NounInputs("ObjectNoun")

VerbInputs(classes) ==
  { VerbOf(c, l, t) : c \in classes, l \in SentenceLemmas, t \in TenseAspect }

Alphabet == {"p", "t", "k", "s", "m", "a", "b", "~"}

WordInputs ==
  Targets(NOUNS) \cup Targets(TRANSITIVE_VERBS) \cup Targets(INTRANSITIVE_VERBS)
    \cup UNION {[1..n -> Alphabet] : n \in 0..MaxWordLen}

----------------------------------------------------------------------------
(* The state machine: an instance is constructed (and validated), a method *)
(* of it or a module function is called, and the instance is dropped.      *)

NoArgs == <<>>
NoOut == <<>>

\* the locals of sample_iter before the first draw
EmptyFrame == [subject |-> NoneValue, verb |-> NoneValue, object |-> NoneValue]

\* no translation request is under way
NoPipeline ==
  [stage |-> "Idle", shapes |-> <<>>, back_translation_agent |-> FALSE,
   attempted |-> <<>>, back_translation |-> "absent", last_error |-> ""]

Init ==
  /\ pc = "idle"
  /\ op = ""
  /\ model = NoneValue
  /\ args = NoArgs
  /\ out = NoOut
  /\ yielded = 0
  /\ frame = EmptyFrame
  /\ pipeline = NoPipeline

\* pydantic construction: the field validators decide built or rejected
Construct(name, instance, valid) ==
  /\ op' = name
  /\ model' = instance
  /\ args' = NoArgs
  /\ pc' = IF valid THEN "built" ELSE "rejected"
  /\ out' = IF valid THEN NoOut ELSE ValidationError
  /\ UNCHANGED <<yielded, frame, pipeline>>

\* a method of the instance held, or a module function
Return(name, arguments, value) ==
  /\ op' = name
  /\ args' = arguments
  /\ out' = value
  /\ pc' = IF IsException(value) THEN "raised" ELSE "returned"
  /\ UNCHANGED <<yielded, frame, pipeline>>

New_Pronoun ==
  /\ pc = "idle"
  /\ \E p \in Pronoun : Construct("Pronoun", p, TRUE)

New_Verb ==
  /\ pc = "idle"
  /\ \E c \in {"Verb", "TransitiveVerb", "IntransitiveVerb"},
     l \in TRANSITIVE_VERB_LOOKUP \cup INTRANSITIVE_VERB_LOOKUP \cup {UnknownLemma},
     t \in TenseAspect :
    Construct(c, VerbOf(c, l, t), validate_lemma(l))

New_Noun ==
  /\ pc = "idle"
  /\ \E c \in {"Noun", "SubjectNoun", "ObjectNoun"},
     h \in NOUN_LOOKUP \cup {UnknownLemma},
     d \in PossessiveInputs, x \in Proximity, n \in Plurality :
    Construct(c, NounOf(c, h, d, x, n), validate_head(h))

\* subject and verb are instances already built, hence valid
New_SubjectVerbSentence ==
  /\ pc = "idle"
  /\ \E s \in SubjectInputs, v \in VerbInputs({"TransitiveVerb", "IntransitiveVerb"}) :
    Construct("SubjectVerbSentence", SubjectVerbSentenceOf(s, v), TRUE)

New_SubjectVerbObjectSentence ==
  /\ pc = "idle"
  /\ \E s \in SubjectInputs, v \in VerbInputs({"TransitiveVerb"}),
        o \in ObjectInputs :
       Construct("SubjectVerbObjectSentence",
                 SubjectVerbObjectSentenceOf(s, v, o), TRUE)

Str_SubjectVerbSentence ==
  /\ pc = "built"
  /\ model.cls = "SubjectVerbSentence"
  /\ Return("__str__", NoArgs, SubjectVerbSentence_str(model))
  /\ UNCHANGED model

Str_SubjectVerbObjectSentence ==
  /\ pc = "built"
  /\ model.cls = "SubjectVerbObjectSentence"
  /\ Return("__str__", NoArgs, SubjectVerbObjectSentence_str(model))
  /\ UNCHANGED model

Call_get_subject_pronoun ==
  /\ pc = "built"
  /\ model.cls = "Pronoun"
  /\ Return("get_subject_pronoun", NoArgs, get_subject_pronoun(model))
  /\ UNCHANGED model

Call_get_object_pronoun ==
  /\ pc = "built"
  /\ model.cls = "Pronoun"
  /\ Return("get_object_pronoun", NoArgs, get_object_pronoun(model))
  /\ UNCHANGED model

Call_get_matching_pronoun_prefix ==
  /\ pc = "built"
  /\ model.cls = "ObjectNoun"
  /\ Return("get_matching_pronoun_prefix", NoArgs, get_matching_pronoun_prefix(model))
  /\ UNCHANGED model

Call_to_lenis ==
  /\ pc = "idle"
  /\ \E word \in WordInputs : Return("to_lenis", <<word>>, to_lenis(word))
  /\ UNCHANGED model

Call_get_noun_target ==
  /\ pc = "idle"
  /\ \E lemma \in AllLemmas :
       Return("get_noun_target", <<lemma>>, get_noun_target(lemma))
  /\ UNCHANGED model

Call_get_transitive_verb_target ==
  /\ pc = "idle"
  /\ \E lemma \in AllLemmas :
       Return("get_transitive_verb_target", <<lemma>>,
              get_transitive_verb_target(lemma))
  /\ UNCHANGED model

Call_get_intransitive_verb_target ==
  /\ pc = "idle"
  /\ \E lemma \in AllLemmas :
       Return("get_intransitive_verb_target", <<lemma>>,
              get_intransitive_verb_target(lemma))
  /\ UNCHANGED model

Call_get_verb_target ==
  /\ pc = "idle"
  /\ \E lemma \in AllLemmas :
       Return("get_verb_target", <<lemma>>, get_verb_target(lemma))
  /\ UNCHANGED model

Call_get_object_suffix ==
  /\ pc = "idle"
  /\ \E x \in Proximity, g \in BOOLEAN :
       Return("get_object_suffix", <<x, g>>, get_object_suffix(x, g))
  /\ UNCHANGED model

Call_get_subject_suffix ==
  /\ pc = "idle"
  /\ \E x \in Proximity :
       Return("get_subject_suffix", <<x>>, get_subject_suffix(x))
  /\ UNCHANGED model

Call_get_suffix ==
  /\ pc = "idle"
  /\ \E t \in TenseAspect : Return("get_suffix", <<t>>, get_suffix(t))
  /\ UNCHANGED model

\* nothing is kept after a request: all entities are discarded
Discard ==
  /\ pc # "idle"
  /\ pc' = "idle"
  /\ op' = ""
  /\ model' = NoneValue
  /\ args' = NoArgs
  /\ out' = NoOut
  /\ yielded' = 0
  /\ frame' = EmptyFrame
  /\ pipeline' = NoPipeline

Next ==
  \/ New_Pronoun
  \/ New_Verb
  \/ New_Noun
  \/ New_SubjectVerbSentence
  \/ New_SubjectVerbObjectSentence
  \/ Str_SubjectVerbSentence
  \/ Str_SubjectVerbObjectSentence
  \/ Call_get_subject_pronoun
  \/ Call_get_object_pronoun
  \/ Call_get_matching_pronoun_prefix
  \/ Call_to_lenis
  \/ Call_get_noun_target
  \/ Call_get_transitive_verb_target
  \/ Call_get_intransitive_verb_target
  \/ Call_get_verb_target
  \/ Call_get_object_suffix
  \/ Call_get_subject_suffix
  \/ Call_get_suffix
  \/ Discard

Spec == Init /\ [][Next]_vars

----------------------------------------------------------------------------
(* sample_iter of both sentence classes: a generator whose loop body draws *)
(* the subject, the verb and, in the transitive class, the object, builds  *)
(* each as a validated instance, and yields the sentence built from them.  *)

NounClasses == {"Noun", "SubjectNoun", "ObjectNoun"}
VerbClasses == {"Verb", "TransitiveVerb", "IntransitiveVerb"}

\* for _ in range(n) with i iterations done, allowing one iteration too many
Mutant_InRange(i, n) == i <= n

\* for _ in range(n) with i iterations done
InRange(i, n) == i < n

\* the field validator run when a drawn Noun or Verb is constructed
ValidPart(instance) ==
  IF instance.cls \in NounClasses THEN validate_head(instance.head)
  ELSE IF instance.cls \in VerbClasses THEN validate_lemma(instance.lemma)
  ELSE TRUE

\* Pronoun(person=choice(...), ..., reflexive=False)
SamplePronouns ==
  { PronounOf(e, n, x, i, FALSE) :
      e \in Person, n \in Plurality, x \in Proximity, i \in Inclusivity }

\* SubjectNoun / ObjectNoun(head=choice(...), proximity=..., plurality=...)
SampleNouns(cls) ==
  { NounOf(cls, h, NoneValue, x, n) :
      h \in Prefix(NOUNS, MaxSampleLemmas), x \in Proximity, n \in Plurality }

\* IntransitiveVerb / TransitiveVerb(lemma=choice(...), tense_aspect=...)
SampleVerbs(cls, table) ==
  { VerbOf(cls, l, t) : l \in Prefix(table, MaxSampleLemmas), t \in TenseAspect }

\* one statement of the loop body: the instance is constructed and bound
Draw(next, instance, f) ==
  /\ frame' = f
  /\ pc' = IF ValidPart(instance) THEN next ELSE "raised"
  /\ out' = IF ValidPart(instance) THEN NoOut ELSE ValidationError
  /\ model' = NoneValue
  /\ UNCHANGED <<op, args, yielded, pipeline>>

Call_sample_iter ==
  /\ pc = "idle"
  /\ \E c \in {"SubjectVerbSentence", "SubjectVerbObjectSentence"},
        n \in 0..MaxSample :
       /\ op' = "sample_iter"
       /\ args' = <<c, n>>
  /\ pc' = "sampling"
  /\ yielded' = 0
  /\ frame' = EmptyFrame
  /\ UNCHANGED <<model, out, pipeline>>

\* the subject block, the same in both classes; verb and obj keep the values
\* of the iteration before until they are assigned again
Sample_Subject ==
  /\ pc = "sampling"
  /\ InRange(yielded, args[2])
  /\ \E s \in SamplePronouns \cup SampleNouns("SubjectNoun") :
       Draw("subject_drawn", s, [frame EXCEPT !.subject = s])

Sample_Verb_SubjectVerbSentence ==
  /\ pc = "subject_drawn"
  /\ args[1] = "SubjectVerbSentence"
  /\ \E v \in SampleVerbs("IntransitiveVerb", INTRANSITIVE_VERBS)
               \cup SampleVerbs("TransitiveVerb", TRANSITIVE_VERBS) :
       Draw("verb_drawn", v, [frame EXCEPT !.verb = v])

Sample_Verb_SubjectVerbObjectSentence ==
  /\ pc = "subject_drawn"
  /\ args[1] = "SubjectVerbObjectSentence"
  /\ \E v \in SampleVerbs("TransitiveVerb", TRANSITIVE_VERBS) :
       Draw("verb_drawn", v, [frame EXCEPT !.verb = v])

Sample_Object ==
  /\ pc = "verb_drawn"
  /\ args[1] = "SubjectVerbObjectSentence"
  /\ \E o \in SampleNouns("ObjectNoun") \cup SamplePronouns :
       Draw("object_drawn", o, [frame EXCEPT !.object = o])

\* yield cls(subject=subject, verb=verb)
Sample_Yield_SubjectVerbSentence ==
  /\ pc = "verb_drawn"
  /\ args[1] = "SubjectVerbSentence"
  /\ model' = SubjectVerbSentenceOf(frame.subject, frame.verb)
  /\ yielded' = yielded + 1
  /\ pc' = "sampling"
  /\ UNCHANGED <<op, args, out, frame, pipeline>>

\* yield cls(subject=subject, verb=verb, object=obj)
Sample_Yield_SubjectVerbObjectSentence ==
  /\ pc = "object_drawn"
  /\ model' = SubjectVerbObjectSentenceOf(frame.subject, frame.verb, frame.object)
  /\ yielded' = yielded + 1
  /\ pc' = "sampling"
  /\ UNCHANGED <<op, args, out, frame, pipeline>>

\* the loop ends and the generator raises StopIteration
Sample_Stop ==
  /\ pc = "sampling"
  /\ ~ InRange(yielded, args[2])
  /\ pc' = "exhausted"
  /\ UNCHANGED <<op, model, args, out, yielded, frame, pipeline>>

SampleNext ==
  \/ Call_sample_iter
  \/ Sample_Subject
  \/ Sample_Verb_SubjectVerbSentence
  \/ Sample_Verb_SubjectVerbObjectSentence
  \/ Sample_Object
  \/ Sample_Yield_SubjectVerbSentence
  \/ Sample_Yield_SubjectVerbObjectSentence
  \/ Sample_Stop
  \/ Discard

SampleSpec == Init /\ [][SampleNext]_vars

----------------------------------------------------------------------------
(* PipelineTranslator, called as translator(source) with an ordered tuple  *)
(* of sentence classes and an optional back-translation agent.  A request  *)
(* asks the generation collaborator for one shape at a time; a response    *)
(* that conforms to the shape is rendered with str(), one that does not    *)
(* makes the request fall back to the next shape.  A collaborator error or *)
(* a render that raises ends the request in Failure at once.  There is no  *)
(* deadline: a collaborator call that never answers leaves the request     *)
(* where it is.                                                            *)

\* the configured list has 1..MaxShapes shapes
MaxShapes == 2

Shapes == {"SubjectVerbSentence", "SubjectVerbObjectSentence"}

\* the sentences of get_examples of each class
get_examples(cls) ==
  IF cls = "SubjectVerbSentence"
    THEN << SubjectVerbSentenceOf(
              PronounOf("first", "singular", "proximal", "exclusive", FALSE),
              VerbOf("IntransitiveVerb", "sleep", "present_simple")),
            SubjectVerbSentenceOf(
              NounOf("SubjectNoun", "coyote", NoneValue, "distal", "singular"),
              VerbOf("IntransitiveVerb", "run", "present_simple")),
            SubjectVerbSentenceOf(
              NounOf("SubjectNoun", "mountain", NoneValue, "distal", "plural"),
              VerbOf("IntransitiveVerb", "hit", "future_simple")) >>
    ELSE << SubjectVerbObjectSentenceOf(
              PronounOf("second", "singular", "distal", "exclusive", FALSE),
              VerbOf("TransitiveVerb", "read", "present_simple"),
              NounOf("ObjectNoun", "mountain", NoneValue, "distal", "plural")),
            SubjectVerbObjectSentenceOf(
              NounOf("SubjectNoun", "worm", NoneValue, "distal", "singular"),
              VerbOf("TransitiveVerb", "hear", "future_simple"),
              PronounOf("third", "singular", "distal", "exclusive", FALSE)),
            SubjectVerbObjectSentenceOf(
              NounOf("SubjectNoun", "food", NoneValue, "distal", "singular"),
              VerbOf("TransitiveVerb", "cook", "present_simple"),
              NounOf("ObjectNoun", "weasle", NoneValue, "proximal", "singular")) >>

\* the verb classes the verb field of a sentence class admits
VerbClassesOf(shape) ==
  IF shape = "SubjectVerbSentence"
    THEN {"TransitiveVerb", "IntransitiveVerb"}
    ELSE {"TransitiveVerb"}

\* the schema-valid responses of the generation collaborator for a shape:
\* instances the class constructs, here the sentences of get_examples, each
\* also with the lemma of its verb replaced by any lemma validate_lemma
\* accepts and its class by any class the field admits
Responses(shape) ==
  UNION { { [get_examples(shape)[i] EXCEPT !.verb = v] :
              v \in { w \in VerbInputs(VerbClassesOf(shape)) :
                        w.tense_aspect =
                          get_examples(shape)[i].verb.tense_aspect }
                     \cup {get_examples(shape)[i].verb} } :
          i \in 1..Len(get_examples(shape)) }

\* the shape the request is asking for
CurrentShape(p) == p.attempted[Len(p.attempted)]

\* candidate shapes remain, the last one forgotten
Mutant_ShapesRemain(p) == Len(p.attempted) + 1 < Len(p.shapes)

\* candidate shapes remain after the ones attempted
ShapesRemain(p) == Len(p.attempted) < Len(p.shapes)

\* translator(source): the first Requesting step, with the first shape
Pipeline_Translate ==
  /\ pc = "idle"
  /\ \E shapes \in UNION {[1..n -> Shapes] : n \in 1..MaxShapes},
        agent \in BOOLEAN :
       pipeline' = [NoPipeline EXCEPT !.stage = "Requesting",
                                      !.shapes = shapes,
                                      !.back_translation_agent = agent,
                                      !.attempted = <<shapes[1]>>]
  /\ pc' = "translating"
  /\ op' = "translate"
  /\ UNCHANGED <<model, args, out, yielded, frame>>

\* a schema-valid response: the sentence is rendered; a render that raises
\* is a typed failure carrying the shape and the cause, never a string
Pipeline_Rendered ==
  /\ pipeline.stage = "Requesting"
  /\ \E response \in Responses(CurrentShape(pipeline)) :
       /\ model' = response
       /\ out' = StrOf(response)
       /\ pipeline' =
            IF IsException(StrOf(response))
              THEN [pipeline EXCEPT !.stage = "Failure",
                                    !.last_error = "RenderError"]
              ELSE [pipeline EXCEPT !.stage = "Rendered"]
  /\ UNCHANGED <<pc, op, args, yielded, frame>>

\* transport, auth or rate-limit failure of either collaborator: not
\* retried, surfaced as the failure of the request
Pipeline_CollaboratorError ==
  /\ pipeline.stage \in {"Requesting", "BackTranslating"}
  /\ pipeline' = [pipeline EXCEPT !.stage = "Failure",
                                  !.last_error = "CollaboratorError"]
  /\ UNCHANGED <<pc, op, model, args, out, yielded, frame>>

\* the response does not conform to the shape asked for
Pipeline_Failed ==
  /\ pipeline.stage = "Requesting"
  /\ pipeline' = [pipeline EXCEPT !.stage = "Failed",
                                  !.last_error = "SchemaValidationError"]
  /\ UNCHANGED <<pc, op, model, args, out, yielded, frame>>

\* shapes remain: Requesting again, with the next shape
Pipeline_Retry ==
  /\ pipeline.stage = "Failed"
  /\ ShapesRemain(pipeline)
  /\ pipeline' =
       [pipeline EXCEPT !.stage = "Requesting",
                        !.attempted = Append(@, pipeline.shapes[Len(@) + 1])]
  /\ UNCHANGED <<pc, op, model, args, out, yielded, frame>>

\* no shape remains: terminal Failure{attempted_shapes, last_error}
Pipeline_Failure ==
  /\ pipeline.stage = "Failed"
  /\ ~ ShapesRemain(pipeline)
  /\ pipeline' = [pipeline EXCEPT !.stage = "Failure"]
  /\ UNCHANGED <<pc, op, model, args, out, yielded, frame>>

\* the rendered string is sent to the back-translation agent, if there is one
Pipeline_BackTranslate ==
  /\ pipeline.stage = "Rendered"
  /\ pipeline.back_translation_agent
  /\ pipeline' = [pipeline EXCEPT !.stage = "BackTranslating"]
  /\ UNCHANGED <<pc, op, model, args, out, yielded, frame>>

\* the back-translation is attached, or its failure reported: not fatal
Pipeline_BackTranslated ==
  /\ pipeline.stage = "BackTranslating"
  /\ \/ pipeline' = [pipeline EXCEPT !.stage = "Success",
                                     !.back_translation = "attached"]
     \/ pipeline' = [pipeline EXCEPT !.stage = "Success",
                                     !.back_translation = "failed",
                                     !.last_error = "BackTranslationError"]
  /\ UNCHANGED <<pc, op, model, args, out, yielded, frame>>

\* terminal Success{target_text} without a back-translation agent
Pipeline_Success ==
  /\ pipeline.stage = "Rendered"
  /\ ~ pipeline.back_translation_agent
  /\ pipeline' = [pipeline EXCEPT !.stage = "Success"]
  /\ UNCHANGED <<pc, op, model, args, out, yielded, frame>>

\* the result is handed to the caller and the request is over
Pipeline_Return ==
  /\ pipeline.stage \in {"Success", "Failure"}
  /\ Discard

PipelineNext ==
  \/ Pipeline_Translate
  \/ Pipeline_Rendered
  \/ Pipeline_CollaboratorError
  \/ Pipeline_Failed
  \/ Pipeline_Retry
  \/ Pipeline_Failure
  \/ Pipeline_BackTranslate
  \/ Pipeline_BackTranslated
  \/ Pipeline_Success
  \/ Pipeline_Return

\* the steps the pipeline takes by itself, with no collaborator to wait for
PipelineInternal ==
  \/ Pipeline_Retry
  \/ Pipeline_Failure
  \/ Pipeline_BackTranslate
  \/ Pipeline_Success
  \/ Pipeline_Return

\* the pipeline is sequential code, so its own steps are taken; whether and
\* when a collaborator answers is not the pipeline's to decide
PipelineSpec == Init /\ [][PipelineNext]_vars /\ WF_vars(PipelineInternal)

----------------------------------------------------------------------------
(* Properties.                                                             *)

\* s.split(c)
RECURSIVE Split(_, _)
Split(s, c) ==
  IF \E i \in 1..Len(s) : s[i] = c
    THEN LET i == CHOOSE k \in 1..Len(s) :
                    s[k] = c /\ \A j \in 1..(k-1) : s[j] # c
         IN  <<SubSeq(s, 1, i-1)>> \o Split(SubSeq(s, i+1, Len(s)), c)
    ELSE <<s>>

\* str(model) has run on an instance of cls
Rendered(cls) == op = "__str__" /\ model.cls = cls

\* the subject word the claims describe
SubjectWord(subject) ==
  IF subject.cls = "Pronoun"
    THEN get_subject_pronoun(subject)
    ELSE get_noun_target(subject.head) \o <<"-">>
           \o get_subject_suffix(subject.proximity)

\* scenario 1 of the spec, example 1 of SubjectVerbSentence.get_examples
ISleep ==
  SubjectVerbSentenceOf(
    PronounOf("first", "singular", "proximal", "exclusive", FALSE),
    VerbOf("IntransitiveVerb", "sleep", "present_simple"))

\* C1: rendering a validated SubjectVerbSentence always returns, and returns
\* exactly subject, one space, verb: the subject is the subject pronoun or
\* noun stem-subject suffix, the verb is get_verb_target(lemma)-tense suffix
\* with the stem unmutated and no prefix, whatever the class of the verb;
\* "I sleep" gives "nüü üwi-dü".
C1_IntransitiveRender ==
  Rendered("SubjectVerbSentence") =>
    /\ pc = "returned"
    /\ out = SubjectWord(model.subject) \o <<" ">>
               \o get_verb_target(model.verb.lemma) \o <<"-">>
               \o get_suffix(model.verb.tense_aspect)
    /\ model = ISleep =>
         out = <<"n", "ü", "ü", " ", "ü", "w", "i", "-", "d", "ü">>

\* a noun subject with a TransitiveVerb whose stem to_lenis would change
C1_Witness ==
  /\ Rendered("SubjectVerbSentence")
  /\ pc = "returned"
  /\ model.subject.cls = "SubjectNoun"
  /\ model.verb.cls = "TransitiveVerb"
  /\ model.verb.lemma = "eat"

\* C2: whenever rendering a validated SubjectVerbObjectSentence returns, the
\* result is "verb subject" (two words, no object phrase) for a Pronoun
\* object and "subject object verb" for a Noun object.
C2_TransitiveWordOrder ==
  (Rendered("SubjectVerbObjectSentence") /\ pc = "returned") =>
    Split(out, " ") =
      IF model.object.cls = "Pronoun"
        THEN << VerbStr(model.verb, model.object), SubjectWord(model.subject) >>
        ELSE << SubjectWord(model.subject), ObjectStr(model.object),
                VerbStr(model.verb, model.object) >>

C2_Witness ==
  /\ Rendered("SubjectVerbObjectSentence")
  /\ pc = "returned"
  /\ model.object.cls = "Pronoun"
  /\ model.subject.cls = "SubjectNoun"

\* the verb word of a rendered transitive sentence: first word with a Pronoun
\* object, last word with a Noun object
VerbWord(s) ==
  LET ws == Split(s, " ") IN ws[IF model.object.cls = "Pronoun" THEN 1 ELSE Len(ws)]

\* the third-person object forms a noun object is marked with
NounPrefix(noun) ==
  IF noun.plurality = "singular"
    THEN (IF noun.proximity = "proximal" THEN <<"a">> ELSE <<"u">>)
    ELSE (IF noun.proximity = "proximal" THEN <<"a", "i">> ELSE <<"u", "i">>)

\* C3: whenever rendering a SubjectVerbObjectSentence returns, its verb word
\* is prefix-stem-suffix: the stem is the transitive table's, passed through
\* to_lenis; the suffix is the tense suffix; the prefix is the object pronoun
\* of a Pronoun object, and for a Noun object one of a, u, ai, ui by the
\* noun's own plurality and proximity.
C3_TransitiveVerbWord ==
  (Rendered("SubjectVerbObjectSentence") /\ pc = "returned") =>
    VerbWord(out) =
      (IF model.object.cls = "Pronoun"
         THEN get_object_pronoun(model.object)
         ELSE NounPrefix(model.object))
        \o <<"-">> \o to_lenis(Target(TRANSITIVE_VERBS, model.verb.lemma))
        \o <<"-">> \o get_suffix(model.verb.tense_aspect)

\* a plural distal noun object (prefix ui) on a verb whose stem is mutated
C3_Witness ==
  /\ Rendered("SubjectVerbObjectSentence")
  /\ pc = "returned"
  /\ model.object.cls = "ObjectNoun"
  /\ model.object.plurality = "plural"
  /\ model.object.proximity = "distal"
  /\ model.verb.lemma = "see"

\* the lenis partner of each fortis consonant
LenisOf(c) ==
  CASE c = "p" -> <<"b">>
    [] c = "t" -> <<"d">>
    [] c = "k" -> <<"g">>
    [] c = "s" -> <<"z">>
    [] c = "m" -> <<"w", "~">>

\* the number of letters among the first i code points: a combining tilde
\* belongs to the letter before it
LetterIndex(s, i) == Cardinality({j \in 1..i : s[j] # "~"})

\* C4: to_lenis returns for every word; a first character among p, t, k, s,
\* m is replaced by b, d, g, z, w~ and every later character keeps its value
\* and its place in the word, fortis or not; any other word comes back
\* unchanged ("tüka" gives "düka", "puni" gives "buni", "yadohi" stays).
C4_ToLenisFirstCharacterOnly ==
  op = "to_lenis" =>
    LET word == args[1]
        shift == Len(out) - Len(word)
    IN  /\ pc = "returned"
        /\ IF word[1] \in {"p", "t", "k", "s", "m"}
             THEN SubSeq(out, 1, shift + 1) = LenisOf(word[1])
             ELSE out = word
        /\ \A i \in 2..Len(word) :
             /\ out[i + shift] = word[i]
             /\ LetterIndex(out, i + shift) = LetterIndex(word, i)
        /\ word = <<"t", "ü", "k", "a">> => out = <<"d", "ü", "k", "a">>
        /\ word = <<"p", "u", "n", "i">> => out = <<"b", "u", "n", "i">>
        /\ word = <<"y", "a", "d", "o", "h", "i">> => out = word

\* the object suffix by proximity and by the last character of the stem
ObjectSuffixOf(proximity, stem) ==
  LET glottal == stem[Len(stem)] = "'"
  IN  CASE proximity = "proximal" /\ glottal -> <<"e", "i", "k", "a">>
        [] proximity = "proximal" /\ ~ glottal -> <<"n", "e", "i", "k", "a">>
        [] proximity = "distal" /\ glottal -> <<"u", "k", "a">>
        [] proximity = "distal" /\ ~ glottal -> <<"n", "o", "k", "a">>

\* C5: whenever rendering a SubjectVerbObjectSentence with a noun object
\* returns, the object phrase (the second word) is target stem-suffix, the
\* suffix being eika, neika, uka or noka by the proximity and by whether the
\* target stem ends in the glottal stop.
C5_ObjectNounPhrase ==
  (Rendered("SubjectVerbObjectSentence") /\ pc = "returned"
     /\ model.object.cls = "ObjectNoun") =>
    LET stem == Target(NOUNS, model.object.head)
    IN  Split(out, " ")[2] =
          stem \o <<"-">> \o ObjectSuffixOf(model.object.proximity, stem)

\* "coyote", whose stem isha' ends in the glottal stop, as a proximal object
C5_Witness ==
  /\ Rendered("SubjectVerbObjectSentence")
  /\ pc = "returned"
  /\ model.object.cls = "ObjectNoun"
  /\ model.object.head = "coyote"
  /\ model.object.proximity = "proximal"

\* C6: get_suffix returns for each of the six TenseAspect values, and returns
\* ku, ti, pü, dü or wei as the table of the claim says.
C6_TenseAspectSuffix ==
  op = "get_suffix" =>
    /\ pc = "returned"
    /\ out = CASE args[1] = "past_simple" -> <<"k", "u">>
               [] args[1] = "past_continuous" -> <<"t", "i">>
               [] args[1] = "present_continuous" -> <<"t", "i">>
               [] args[1] = "present_perfect" -> <<"p", "ü">>
               [] args[1] = "present_simple" -> <<"d", "ü">>
               [] args[1] = "future_simple" -> <<"w", "e", "i">>

C6_Witness ==
  /\ op = "get_suffix"
  /\ pc = "returned"
  /\ args[1] = "present_continuous"

\* C7: get_object_pronoun of a reflexive third-person pronoun returns "na",
\* whatever the plurality, proximity and inclusivity.
C7_ReflexiveThirdObject ==
  (op = "get_object_pronoun" /\ model.person = "third" /\ model.reflexive) =>
    (pc = "returned" /\ out = <<"n", "a">>)

C7_Witness ==
  /\ op = "get_object_pronoun"
  /\ model.person = "third"
  /\ model.reflexive
  /\ model.plurality = "singular"
  /\ model.proximity = "proximal"
  /\ pc = "returned"

\* C8: get_subject_pronoun and get_object_pronoun return a non-empty string
\* for every Pronoun, and get_subject_suffix, get_object_suffix and
\* get_suffix for every enumerated argument: none raises.
C8_FeatureFunctionsTotal ==
  op \in {"get_subject_pronoun", "get_object_pronoun", "get_subject_suffix",
          "get_object_suffix", "get_suffix"} =>
    (pc = "returned" /\ out \notin Exceptions /\ Len(out) > 0)

C8_Witness ==
  /\ op = "get_subject_pronoun"
  /\ pc = "returned"
  /\ model.person = "second"
  /\ model.plurality = "plural"
  /\ model.inclusivity = "exclusive"
  /\ model.reflexive

\* the same pronoun with the reflexive flag flipped
FlipReflexive(p) == [p EXCEPT !.reflexive = ~ @]

\* C9: flipping reflexive never changes get_subject_pronoun, never changes
\* get_object_pronoun of a first- or second-person pronoun, and so never
\* changes what a sentence renders to when flipped on a subject pronoun or
\* on a first- or second-person object pronoun.
C9_ReflexiveIgnored ==
  /\ op = "get_subject_pronoun" =>
       out = get_subject_pronoun(FlipReflexive(model))
  /\ (op = "get_object_pronoun" /\ model.person \in {"first", "second"}) =>
       out = get_object_pronoun(FlipReflexive(model))
  /\ (Rendered("SubjectVerbSentence") /\ model.subject.cls = "Pronoun") =>
       out = SubjectVerbSentence_str(
               [model EXCEPT !.subject = FlipReflexive(@)])
  /\ (Rendered("SubjectVerbObjectSentence") /\ model.subject.cls = "Pronoun") =>
       out = SubjectVerbObjectSentence_str(
               [model EXCEPT !.subject = FlipReflexive(@)])
  /\ (Rendered("SubjectVerbObjectSentence") /\ model.object.cls = "Pronoun"
        /\ model.object.person \in {"first", "second"}) =>
       out = SubjectVerbObjectSentence_str(
               [model EXCEPT !.object = FlipReflexive(@)])

\* a rendered sentence with a reflexive third-person subject and a reflexive
\* second-person object
C9_Witness ==
  /\ Rendered("SubjectVerbObjectSentence")
  /\ pc = "returned"
  /\ model.subject.cls = "Pronoun"
  /\ model.subject.person = "third"
  /\ model.subject.reflexive
  /\ model.object.cls = "Pronoun"
  /\ model.object.person = "second"
  /\ model.object.reflexive

\* C10: a TransitiveVerb is built only with a lemma of the transitive table
\* and an IntransitiveVerb only with a lemma of the intransitive table; a
\* lemma of the other table alone is rejected.
C10_VerbValidatedByCollection ==
  pc = "built" =>
    /\ model.cls = "TransitiveVerb" => model.lemma \in TRANSITIVE_VERB_LOOKUP
    /\ model.cls = "IntransitiveVerb" => model.lemma \in INTRANSITIVE_VERB_LOOKUP

\* C11: a Noun is built only with a head of the noun table and a Verb only
\* with a lemma of one of the verb tables, any other being rejected with an
\* error; every lookup of a lemma absent from the table it reads raises, and
\* none returns a string, bracketed or not, for it.
C11_UnknownLemmaFails ==
  /\ op \in NounClasses =>
       IF model.head \in NOUN_LOOKUP
         THEN pc = "built"
         ELSE pc = "rejected" /\ out = ValidationError
  /\ op \in VerbClasses =>
       IF model.lemma \in TRANSITIVE_VERB_LOOKUP \cup INTRANSITIVE_VERB_LOOKUP
         THEN pc = "built"
         ELSE pc = "rejected" /\ out = ValidationError
  /\ (op = "get_noun_target" /\ args[1] \notin NOUN_LOOKUP) =>
       (pc = "raised" /\ out = KeyError)
  /\ (op = "get_transitive_verb_target"
        /\ args[1] \notin TRANSITIVE_VERB_LOOKUP) =>
       (pc = "raised" /\ out = KeyError)
  /\ (op = "get_intransitive_verb_target"
        /\ args[1] \notin INTRANSITIVE_VERB_LOOKUP) =>
       (pc = "raised" /\ out = KeyError)
  /\ (op = "get_verb_target"
        /\ args[1] \notin TRANSITIVE_VERB_LOOKUP \cup INTRANSITIVE_VERB_LOOKUP) =>
       (pc = "raised" /\ out = KeyError)

\* the lookup of a lemma of no table has raised
C11_Witness ==
  /\ op = "get_noun_target"
  /\ args[1] = UnknownLemma
  /\ pc = "raised"

\* the stem the table lists for a lemma
StemIn(table, lemma) ==
  table[CHOOSE i \in 1..Len(table) : table[i].english = lemma].target

\* C12: get_verb_target returns the transitive stem of a lemma of the
\* transitive table, also when the intransitive table has it with another
\* stem ("read" gives nia, "write" gives mui); it returns the intransitive
\* stem of a lemma of the intransitive table alone; it raises only for a
\* lemma of neither.
C12_TransitiveTableFirst ==
  op = "get_verb_target" =>
    LET lemma == args[1]
    IN  /\ IF lemma \in TRANSITIVE_VERB_LOOKUP
             THEN pc = "returned" /\ out = StemIn(TRANSITIVE_VERBS, lemma)
             ELSE IF lemma \in INTRANSITIVE_VERB_LOOKUP
               THEN pc = "returned" /\ out = StemIn(INTRANSITIVE_VERBS, lemma)
               ELSE pc = "raised"
        /\ lemma = "read" => out = <<"n", "i", "a">>
        /\ lemma = "write" => out = <<"m", "u", "i">>
        /\ lemma = "sleep" => out = <<"ü", "w", "i">>

\* "read" is in both tables, as nia and as tünia
C12_Witness ==
  /\ op = "get_verb_target"
  /\ pc = "returned"
  /\ args[1] = "read"
  /\ StemIn(INTRANSITIVE_VERBS, "read") = <<"t", "ü", "n", "i", "a">>

\* what the claims call a valid subject or object: a Pronoun, or a noun of
\* the class the slot takes whose head is in the noun table
ValidNounPhrase(x, cls) ==
  IF x.cls = "Pronoun" THEN x \in Pronoun
  ELSE /\ x.cls = cls
       /\ x.head \in NOUN_LOOKUP
       /\ x.proximity \in Proximity
       /\ x.plurality \in Plurality

\* a verb whose lemma is in the table its class requires
ValidTypedVerb(v) ==
  /\ v.tense_aspect \in TenseAspect
  /\ \/ v.cls = "TransitiveVerb" /\ v.lemma \in TRANSITIVE_VERB_LOOKUP
     \/ v.cls = "IntransitiveVerb" /\ v.lemma \in INTRANSITIVE_VERB_LOOKUP

ValidSentence(m) ==
  /\ ValidNounPhrase(m.subject, "SubjectNoun")
  /\ ValidTypedVerb(m.verb)
  /\ m.cls = "SubjectVerbObjectSentence" =>
       (m.verb.cls = "TransitiveVerb" /\ ValidNounPhrase(m.object, "ObjectNoun"))

\* C13: a sample_iter(n) generator of either class never raises while it
\* draws, never yields more than n instances, can always go on while it has
\* yielded fewer, and stops only after exactly n; each instance it yields
\* is of its class, is valid (heads in the noun table, the verb's lemma in
\* the table of the verb's class) and renders to a string.
C13_SampleIterYieldsNValid ==
  op = "sample_iter" =>
    /\ pc \in {"sampling", "subject_drawn", "verb_drawn", "object_drawn",
               "exhausted"}
    /\ yielded <= args[2]
    /\ pc = "exhausted" => yielded = args[2]
    /\ (pc = "sampling" /\ yielded < args[2]) => ENABLED Sample_Subject
    /\ pc = "subject_drawn" =>
         ENABLED (Sample_Verb_SubjectVerbSentence
                    \/ Sample_Verb_SubjectVerbObjectSentence)
    /\ pc = "verb_drawn" =>
         ENABLED (Sample_Yield_SubjectVerbSentence \/ Sample_Object)
    /\ pc = "object_drawn" => ENABLED Sample_Yield_SubjectVerbObjectSentence
    /\ model # NoneValue =>
         /\ yielded > 0
         /\ model.cls = args[1]
         /\ ValidSentence(model)
         /\ ~ IsException(StrOf(model))
         /\ Len(StrOf(model)) > 0

\* a generator asked for two transitive sentences has yielded the second
\* and stopped
C13_Witness ==
  /\ op = "sample_iter"
  /\ pc = "exhausted"
  /\ args = <<"SubjectVerbObjectSentence", 2>>
  /\ yielded = 2
  /\ model.cls = "SubjectVerbObjectSentence"
  /\ model.object.cls = "ObjectNoun"

\* C14 as claimed: in a translation request over an ordered list of shapes,
\* a Failed step with shapes remaining is followed by nothing but a
\* Requesting step for the next shape of the list; Failure is reached only
\* when every configured shape has been attempted; Success is reached only
\* from Rendered or BackTranslating, and holds the string rendered from a
\* response of the shape last asked for; and every request that is
\* Requesting eventually reaches Success or Failure.
C14_PipelineStateMachine ==
  /\ [][ (pipeline.stage = "Failed"
           /\ Len(pipeline.attempted) < Len(pipeline.shapes))
         => /\ pipeline'.stage = "Requesting"
            /\ pipeline'.shapes = pipeline.shapes
            /\ pipeline'.attempted =
                 Append(pipeline.attempted,
                        pipeline.shapes[Len(pipeline.attempted) + 1]) ]_vars
  /\ [](pipeline.stage = "Failure" => pipeline.attempted = pipeline.shapes)
  /\ [][ (pipeline'.stage = "Success" /\ pipeline.stage # "Success")
         => pipeline.stage \in {"Rendered", "BackTranslating"} ]_vars
  /\ [](pipeline.stage \in {"Rendered", "BackTranslating", "Success"} =>
         /\ model \in Responses(CurrentShape(pipeline))
         /\ out = StrOf(model)
         /\ ~ IsException(out)
         /\ Len(out) > 0)
  /\ (pipeline.stage = "Requesting")
       ~> (pipeline.stage \in {"Success", "Failure"})

\* C14 amended: a Failed step with shapes remaining is followed by nothing
\* but a Requesting step for the next shape of the list; Failure is reached
\* from Failed when every configured shape has been attempted and has failed
\* schema validation, or at once from Requesting or BackTranslating on a
\* collaborator error, or at once from Requesting when the render of a
\* schema-valid response raises, and then carries the response and what was
\* raised; Success is reached only from Rendered or BackTranslating, and
\* holds the string rendered from a response of the shape last asked for;
\* and every request reaches Success or Failure unless it waits forever for
\* a collaborator to answer.
C14_PipelineStateMachineAmended ==
  /\ [][ (pipeline.stage = "Failed"
           /\ Len(pipeline.attempted) < Len(pipeline.shapes))
         => /\ pipeline'.stage = "Requesting"
            /\ pipeline'.shapes = pipeline.shapes
            /\ pipeline'.attempted =
                 Append(pipeline.attempted,
                        pipeline.shapes[Len(pipeline.attempted) + 1]) ]_vars
  /\ [][ (pipeline'.stage = "Failure" /\ pipeline.stage # "Failure") =>
           \/ /\ pipeline.stage = "Failed"
              /\ pipeline'.last_error = "SchemaValidationError"
           \/ /\ pipeline.stage = "Requesting"
              /\ pipeline'.last_error \in {"CollaboratorError", "RenderError"}
           \/ /\ pipeline.stage = "BackTranslating"
              /\ pipeline'.last_error = "CollaboratorError" ]_vars
  /\ []((pipeline.stage = "Failure"
          /\ pipeline.last_error = "SchemaValidationError")
         => pipeline.attempted = pipeline.shapes)
  /\ []((pipeline.stage = "Failure" /\ pipeline.last_error = "RenderError") =>
         /\ model \in Responses(CurrentShape(pipeline))
         /\ out = StrOf(model)
         /\ IsException(out))
  /\ [][ (pipeline'.stage = "Success" /\ pipeline.stage # "Success")
         => pipeline.stage \in {"Rendered", "BackTranslating"} ]_vars
  /\ [](pipeline.stage \in {"Rendered", "BackTranslating", "Success"} =>
         /\ model \in Responses(CurrentShape(pipeline))
         /\ out = StrOf(model)
         /\ ~ IsException(out)
         /\ Len(out) > 0)
  /\ \/ <>[](pipeline.stage = "Requesting")
     \/ <>[](pipeline.stage = "BackTranslating")
     \/ (pipeline.stage = "Requesting")
          ~> (pipeline.stage \in {"Success", "Failure"})

\* the first of two shapes gets a response that validates and cannot be
\* rendered: Failure with the second shape never attempted
C14_Witness ==
  /\ pipeline.stage = "Failure"
  /\ pipeline.shapes = <<"SubjectVerbObjectSentence", "SubjectVerbSentence">>
  /\ pipeline.attempted = <<"SubjectVerbObjectSentence">>
  /\ pipeline.last_error = "RenderError"
  /\ model.verb = VerbOf("TransitiveVerb", "sleep", "present_simple")
  /\ out = KeyError

\* the simple sentence structures of SENTENCE_STRUCTURE_PROMPT: the words of
\* a template in order, each word the slots a hyphen joins
SENTENCE_STRUCTURE_PROMPT(structure) ==
  CASE structure = "Subject-Object-Verb" ->
         << <<"object noun", "object suffix">>,
            <<"subject noun", "subject suffix">>,
            <<"object pronoun", "verb", "verb tense">> >>
    [] structure = "Subject Pronoun-Object-Verb" ->
         << <<"object noun", "object suffix">>,
            <<"subject pronoun">>,
            <<"object pronoun", "verb", "verb tense">> >>
    [] structure = "Subject-Verb" ->
         << <<"verb", "verb tense">>,
            <<"subject noun", "subject suffix">> >>

\* the template a sentence falls under, "" when none of the three describes it
StructureOf(m) ==
  IF m.cls = "SubjectVerbSentence"
    THEN (IF m.subject.cls = "SubjectNoun" THEN "Subject-Verb" ELSE "")
  ELSE IF m.object.cls # "ObjectNoun" THEN ""
  ELSE IF m.subject.cls = "Pronoun" THEN "Subject Pronoun-Object-Verb"
  ELSE "Subject-Object-Verb"

\* what the renderer puts in a slot of a template
Slot(m, slot) ==
  CASE slot = "subject noun" -> get_noun_target(m.subject.head)
    [] slot = "subject suffix" -> get_subject_suffix(m.subject.proximity)
    [] slot = "subject pronoun" -> get_subject_pronoun(m.subject)
    [] slot = "object noun" -> get_noun_target(m.object.head)
    [] slot = "object suffix" ->
         get_object_suffix(m.object.proximity,
                           endswith(get_noun_target(m.object.head), "'"))
    [] slot = "object pronoun" -> ObjectPronounPrefix(m.object)
    [] slot = "verb" ->
         IF m.cls = "SubjectVerbSentence"
           THEN get_verb_target(m.verb.lemma)
           ELSE to_lenis(get_transitive_verb_target(m.verb.lemma))
    [] slot = "verb tense" -> get_suffix(m.verb.tense_aspect)

RECURSIVE JoinAll(_, _)
\* sep.join(parts)
JoinAll(parts, sep) ==
  IF Len(parts) = 0 THEN <<>>
  ELSE IF Len(parts) = 1 THEN parts[1]
  ELSE parts[1] \o sep \o JoinAll(Tail(parts), sep)

\* the template of a sentence with its slots filled
FillTemplate(m) ==
  LET template == SENTENCE_STRUCTURE_PROMPT(StructureOf(m))
      Word(w) == JoinAll([i \in 1..Len(w) |-> Slot(m, w[i])], <<"-">>)
  IN  JoinAll([i \in 1..Len(template) |-> Word(template[i])], <<" ">>)

\* C15: whenever rendering returns for a sentence one of the prompt's simple
\* sentence structures describes (a Subject-Verb sentence with a noun
\* subject, a Subject-Object-Verb sentence with a noun object), the string
\* is the structure's template filled in: verb before subject in the first,
\* object phrase, subject, verb in the second.
C15_RenderMatchesPromptTemplate ==
  (op = "__str__" /\ pc = "returned" /\ StructureOf(model) # "") =>
    out = FillTemplate(model)

\* the hyphen-joined components of the words of a rendered string
Components(s) ==
  LET words == Split(s, " ")
  IN  UNION { LET parts == Split(words[i], "-")
              IN  { parts[j] : j \in 1..Len(parts) } : i \in 1..Len(words) }

\* C16: rendering a validated SubjectVerbSentence or
\* SubjectVerbObjectSentence always returns a string and never raises; no
\* component of the string is the text of an unset (None) subject, object
\* or prefix; and the object of a SubjectVerbObjectSentence is never absent,
\* so its verb is never looked up in the intransitive table.
C16_RenderTotal ==
  (op = "__str__"
     /\ model.cls \in {"SubjectVerbSentence", "SubjectVerbObjectSentence"}) =>
    /\ pc = "returned"
    /\ ~ IsException(out)
    /\ NoneStr \notin Components(out)
    /\ model.cls = "SubjectVerbObjectSentence" => model.object # NoneValue

====
